---- MODULE Spec2Model ----
(***************************************************************************)
(* Word wrapping in stringi (src/src/common.cpp): stri_wrap and the two    *)
(* break planners stri__wrap_greedy and stri__wrap_dynamic.                *)
(*                                                                         *)
(* A string is a sequence of characters; every character occupies U8Len    *)
(* bytes, so byte offsets (pos, end_pos_trim, the slices of the output     *)
(* lines) and code-point counts (counts_orig, counts_trim) differ.  C      *)
(* arrays are functions over 0..n-1 and keep the indices of the source.    *)
(***************************************************************************)
EXTENDS Integers, Sequences, FiniteSets, TLC

VARIABLES str, width_val, exponent_val, i, ret, status, loc

vars == <<str, width_val, exponent_val, i, ret, status, loc>>

(***************************************************************************)
(* Bounds of the explored inputs.                                          *)
(***************************************************************************)
MaxWords == 4       \* words of a generated word list
MaxChars == 5       \* code points of a generated word list
MaxWidth == 4       \* the width argument
MaxExponent == 2    \* the cost_exponent argument
MaxSize == 3        \* strings of a batch plus the characters of its strings

(***************************************************************************)
(* Characters.  "a" and the letters of the example are one-byte letters,   *)
(* " " is U+0020, "E9" is U+00E9 (two bytes, a letter), "A0" is U+00A0     *)
(* (two bytes, White_Space), "0A" is U+000A and "FF" is the byte 0xFF,     *)
(* which never occurs in well-formed UTF-8.                                *)
(***************************************************************************)
U8Len(c) == IF c \in {"E9", "A0"} THEN 2 ELSE 1

IsInvalid(c) == c = "FF"

uset_linebreaks == {"0A"}

uset_whitespaces == {" ", "A0", "0A"}

IsLinebreak_Never(c) == FALSE

IsLinebreak(c) == c \in uset_linebreaks

\* the bytes of a string: byte k of character c is <<c, k>>
RECURSIVE Bytes(_)
Bytes(text) ==
    IF text = <<>> THEN <<>>
    ELSE [k \in 1..U8Len(Head(text)) |-> <<Head(text), k>>] \o Bytes(Tail(text))

\* a read of a C array; an index outside the array yields g
At(arr, idx, g) == IF idx \in DOMAIN arr THEN arr[idx] ELSE g

Zeros(n) == [k \in 0..(n - 1) |-> 0]

(***************************************************************************)
(* Word Measurer: the while loop of stri_wrap.                             *)
(***************************************************************************)
MeasureStart(noccurences) ==
    [ cur_block |-> 0, cur_count_orig |-> 0, cur_count_trim |-> 0,
      cur_end_pos_trim |-> 0,
      counts_orig |-> Zeros(noccurences - 1),
      counts_trim |-> Zeros(noccurences - 1),
      end_pos_trim |-> Zeros(noccurences - 1),
      thrown |-> FALSE, invalid |-> FALSE ]

\* cur_end_pos_trim of the block that starts at byte j
BlockStart(m, j) == j

\* j >= str_cur_n || pos[cur_block+1] <= j
BlockEnds(s_n, pos, cur_block, j) ==
    \/ j >= s_n
    \/ pos[cur_block + 1] <= j

RECURSIVE MeasureLoop(_, _, _, _)
MeasureLoop(s, pos, j0, m) ==
    IF j0 >= Len(s) THEN m
    ELSE
      LET c == s[j0 + 1][1]
          j == j0 + U8Len(c)
      IN
      IF IsInvalid(c) THEN MeasureLoop(s, pos, j, [m EXCEPT !.invalid = TRUE])
      ELSE IF IsLinebreak(c) THEN [m EXCEPT !.thrown = TRUE]
      ELSE
        LET ws == c \in uset_whitespaces
            co == m.cur_count_orig + 1
            ct == IF ws THEN m.cur_count_trim + 1 ELSE 0
            ce == IF ws THEN m.cur_end_pos_trim ELSE j
        IN
        IF BlockEnds(Len(s), pos, m.cur_block, j)
        THEN MeasureLoop(s, pos, j,
               [m EXCEPT !.counts_orig[m.cur_block] = co,
                         !.counts_trim[m.cur_block] = co - ct,
                         !.end_pos_trim[m.cur_block] = ce,
                         !.cur_block = m.cur_block + 1,
                         !.cur_count_orig = 0,
                         !.cur_count_trim = 0,
                         !.cur_end_pos_trim = BlockStart(m, j)])
        ELSE MeasureLoop(s, pos, j,
               [m EXCEPT !.cur_count_orig = co,
                         !.cur_count_trim = ct,
                         !.cur_end_pos_trim = ce])

Measure(s, pos, noccurences) == MeasureLoop(s, pos, 0, MeasureStart(noccurences))

(***************************************************************************)
(* Greedy planner.                                                         *)
(***************************************************************************)
GreedyOverflows_Off(cur_len, trim_j, width) == cur_len + trim_j > width + 1

\* cur_len + counts_trim[j] > width_val
GreedyOverflows(cur_len, trim_j, width) == cur_len + trim_j > width

GreedyReset_Trim(counts_orig, counts_trim, j) == counts_trim[j]

\* cur_len = counts_orig[j]
GreedyReset(counts_orig, counts_trim, j) == counts_orig[j]

RECURSIVE GreedyLoop(_, _, _, _, _, _, _)
GreedyLoop(j, cur_len, wrap, noccurences, width, counts_orig, counts_trim) ==
    IF j < noccurences - 1
    THEN IF GreedyOverflows(cur_len, counts_trim[j], width)
         THEN GreedyLoop(j + 1, GreedyReset(counts_orig, counts_trim, j),
                         Append(wrap, j - 1),
                         noccurences, width, counts_orig, counts_trim)
         ELSE GreedyLoop(j + 1, cur_len + counts_orig[j], wrap,
                         noccurences, width, counts_orig, counts_trim)
    ELSE wrap

stri__wrap_greedy(noccurences, width, counts_orig, counts_trim) ==
    GreedyLoop(1, counts_orig[0], <<>>, noccurences, width,
               counts_orig, counts_trim)

(***************************************************************************)
(* Dynamic planner.                                                        *)
(***************************************************************************)
IDX(a, b, n) == a * n + b

RECURSIVE Pow(_, _)
Pow(b, e) == IF e <= 0 THEN 1 ELSE b * Pow(b, e - 1)

RECURSIVE SumRange(_, _, _)
SumRange(arr, a, b) == IF a > b THEN 0 ELSE arr[a] + SumRange(arr, a + 1, b)

LineSum_Swapped(a, b, counts_orig, counts_trim) ==
    SumRange(counts_trim, a, b - 1) + counts_orig[b]

\* the value of sum when cost[IDX(a,b)] is assigned
LineSum(a, b, counts_orig, counts_trim) ==
    SumRange(counts_orig, a, b - 1) + counts_trim[b]

SingleCost_Infeasible(ct, e) == IF ct < 0 THEN -1 ELSE Pow(ct, e)

\* cost of a line of one word
SingleCost(ct, e) == IF ct < 0 THEN 0 ELSE Pow(ct, e)

MultiCost_Tolerant(ct, e) == IF ct < 0 THEN 0 ELSE Pow(ct, e)

\* cost of a line of several words; -1 stands for infinity
MultiCost(ct, e) == IF ct < 0 THEN -1 ELSE Pow(ct, e)

RECURSIVE CostCell(_, _, _, _, _, _)
CostCell(a, b, width, e, counts_orig, counts_trim) ==
    LET ct == width - LineSum(a, b, counts_orig, counts_trim) IN
    IF b = a THEN SingleCost(ct, e)
    ELSE IF CostCell(a, b - 1, width, e, counts_orig, counts_trim) < 0 THEN -1
    ELSE MultiCost(ct, e)

\* vector<double> cost(n*n): the cells below the diagonal stay 0.0
CostMatrix(n, width, e, counts_orig, counts_trim) ==
    [idx \in 0..(n * n - 1) |->
        IF idx % n >= idx \div n
        THEN CostCell(idx \div n, idx % n, width, e, counts_orig, counts_trim)
        ELSE 0]

\* while (i <= j) if (cost[IDX(i+1,j)] >= 0.0) break; else ++i;
RECURSIVE SearchStart(_, _, _, _, _)
SearchStart(a, j, n, cost, g) ==
    IF a <= j
    THEN IF At(cost, IDX(a + 1, j, n), g) >= 0 THEN a
         ELSE SearchStart(a + 1, j, n, cost, g)
    ELSE a

\* the indices of cost read by the search
RECURSIVE SearchReads(_, _, _, _, _)
SearchReads(a, j, n, cost, g) ==
    IF a <= j
    THEN {IDX(a + 1, j, n)} \cup
         (IF At(cost, IDX(a + 1, j, n), g) >= 0 THEN {}
          ELSE SearchReads(a + 1, j, n, cost, g))
    ELSE {}

\* double best_i = f[0] + cost[IDX(i+1,j)];
FirstBest(f, a, j, n, cost, g) == f[0] + At(cost, IDX(a + 1, j, n), g)

RECURSIVE BestLoop(_, _, _, _, _, _)
BestLoop(k, j, n, cost, f, best) ==
    IF k < j
    THEN IF cost[IDX(k + 1, j, n)] < 0 THEN BestLoop(k + 1, j, n, cost, f, best)
         ELSE LET best_cur == f[k] + cost[IDX(k + 1, j, n)] IN
              IF best_cur < best.best_i
              THEN BestLoop(k + 1, j, n, cost, f, [i |-> k, best_i |-> best_cur])
              ELSE BestLoop(k + 1, j, n, cost, f, best)
    ELSE best

RECURSIVE DynLoop(_, _, _, _, _)
DynLoop(j, n, cost, d, g) ==
    IF j >= n THEN d
    ELSE IF cost[IDX(0, j, n)] >= 0
    THEN DynLoop(j + 1, n, cost, [d EXCEPT !.f[j] = cost[IDX(0, j, n)]], g)
    ELSE
      LET a0 == SearchStart(0, j, n, cost, g)
          b == BestLoop(a0 + 1, j, n, cost, d.f,
                        [i |-> a0, best_i |-> FirstBest(d.f, a0, j, n, cost, g)])
          w2 == [idx \in DOMAIN d.where |->
                   IF idx = IDX(b.i, j, n) THEN TRUE
                   ELSE IF idx % n = j /\ idx \div n < b.i
                   THEN At(d.where, IDX(idx \div n, b.i, n), g >= 0)
                   ELSE d.where[idx]]
      IN DynLoop(j + 1, n, cost,
                 [f |-> [d.f EXCEPT ![j] = b.best_i], where |-> w2,
                  reads |-> d.reads \cup SearchReads(0, j, n, cost, g)], g)

RECURSIVE WhereRow(_, _, _)
WhereRow(k, n, where) ==
    IF k < n
    THEN (IF where[IDX(k, n - 1, n)] THEN <<k>> ELSE <<>>) \o WhereRow(k + 1, n, where)
    ELSE <<>>

stri__wrap_dynamic(noccurences, width, e, counts_orig, counts_trim, g) ==
    LET n == noccurences - 1
        cost == CostMatrix(n, width, e, counts_orig, counts_trim)
        d == DynLoop(0, n, cost,
                     [f |-> Zeros(n),
                      where |-> [idx \in 0..(n * n - 1) |-> FALSE],
                      reads |-> {}], g)
    IN [wrap |-> WhereRow(0, n, d.where), cost |-> cost, f |-> d.f,
        reads |-> d.reads]

(***************************************************************************)
(* Line Builder: the loop over wrap at the end of one iteration.           *)
(***************************************************************************)
NextStart_SameWord(pos, w, g) == At(pos, w, g)

\* last_pos = pos[*iter_wrap+1]
NextStart(pos, w, g) == At(pos, w + 1, g)

RECURSIVE BuildLoop(_, _, _, _, _, _)
BuildLoop(k, wrap, last_pos, pos, end_pos_trim, g) ==
    IF k > Len(wrap) THEN <<>>
    ELSE <<[from |-> last_pos, to |-> At(end_pos_trim, wrap[k], g)]>> \o
         BuildLoop(k + 1, wrap, NextStart(pos, wrap[k], g), pos, end_pos_trim, g)

\* Rf_mkCharLenCE(str_cur_s+last_pos, cur_pos-last_pos, CE_UTF8)
Slice(s, sl) == SubSeq(s, sl.from + 1, sl.to)

BadSlice(s, sl) == sl.to < sl.from \/ sl.from < 0 \/ sl.to > Len(s)

(***************************************************************************)
(* One iteration of the loop over the strings of stri_wrap.                *)
(***************************************************************************)
NoLoc ==
    [ kind |-> "none", noccurences |-> 0, s |-> <<>>, pos |-> Zeros(0),
      counts_orig |-> Zeros(0), counts_trim |-> Zeros(0),
      end_pos_trim |-> Zeros(0), invalid |-> FALSE, dynamic |-> FALSE,
      wrap |-> <<>>, cost |-> Zeros(0), f |-> Zeros(0), reads |-> {},
      slices |-> <<>>, bad |-> FALSE ]

Unset == [kind |-> "unset", lines |-> <<>>]

NAResult == [kind |-> "NA", lines |-> <<>>]

\* str_cont.toR(i): the string itself as a character vector of length 1
ToR(in) == [kind |-> "lines", lines |-> <<Bytes(in.text)>>]

Noccurences(in) == Cardinality(DOMAIN in.pos)

\* if (exponent_val <= 0.0) greedy else dynamic
Plan(noccurences, width, e, counts_orig, counts_trim, g) ==
    IF e <= 0
    THEN [wrap |-> stri__wrap_greedy(noccurences, width, counts_orig, counts_trim),
          cost |-> Zeros(0), f |-> Zeros(0), reads |-> {}]
    ELSE stri__wrap_dynamic(noccurences, width, e, counts_orig, counts_trim, g)

\* the locals of the iteration for a string that is not NA
Iteration(in, width, e, g) ==
    LET noccurences == Noccurences(in)
        s == Bytes(in.text)
    IN
    IF noccurences <= 1
    THEN [NoLoc EXCEPT !.kind = "nomatch", !.noccurences = noccurences,
                       !.s = s, !.pos = in.pos]
    ELSE
      LET m == Measure(s, in.pos, noccurences) IN
      IF m.thrown
      THEN [NoLoc EXCEPT !.kind = "thrown", !.noccurences = noccurences,
                         !.s = s, !.pos = in.pos, !.invalid = m.invalid]
      ELSE
        LET p == Plan(noccurences, width, e, m.counts_orig, m.counts_trim, g)
            slices == BuildLoop(1, Append(p.wrap, noccurences - 2), 0,
                                in.pos, m.end_pos_trim, g)
        IN [ kind |-> "wrapped", noccurences |-> noccurences, s |-> s,
             pos |-> in.pos, counts_orig |-> m.counts_orig,
             counts_trim |-> m.counts_trim, end_pos_trim |-> m.end_pos_trim,
             invalid |-> m.invalid, dynamic |-> e > 0, wrap |-> p.wrap,
             cost |-> p.cost, f |-> p.f, reads |-> p.reads,
             slices |-> slices,
             bad |-> \E k \in 1..Len(slices) : BadSlice(s, slices[k]) ]

\* the character vector ans; a slice of negative length has no content
Lines(l) ==
    [kind |-> "lines",
     lines |-> [k \in 1..Len(l.slices) |->
                  IF BadSlice(l.s, l.slices[k]) THEN <<>>
                  ELSE Slice(l.s, l.slices[k])]]

Garbage == {-1, 0}

str_length == Cardinality(DOMAIN str)

Running == status = "running" /\ i < str_length

\* if (str_cont.isNA(i)) { SET_VECTOR_ELT(ret, i, NA); continue; }
WrapNA ==
    /\ Running
    /\ str[i].na
    /\ ret' = [ret EXCEPT ![i] = NAResult]
    /\ loc' = [NoLoc EXCEPT !.kind = "na"]
    /\ i' = i + 1
    /\ UNCHANGED <<str, width_val, exponent_val, status>>

\* if (noccurences <= 1) { SET_VECTOR_ELT(ret, i, str_cont.toR(i)); continue; }
WrapNoMatch ==
    /\ Running
    /\ ~str[i].na
    /\ Noccurences(str[i]) <= 1
    /\ ret' = [ret EXCEPT ![i] = ToR(str[i])]
    /\ loc' = Iteration(str[i], width_val, exponent_val, 0)
    /\ i' = i + 1
    /\ UNCHANGED <<str, width_val, exponent_val, status>>

\* throw StriException(MSG__NEWLINE_FOUND): the handler frees the iterator
\* and raises an R error; stri_wrap returns nothing
WrapThrow ==
    /\ Running
    /\ ~str[i].na
    /\ \E g \in Garbage :
         LET l == Iteration(str[i], width_val, exponent_val, g) IN
         /\ l.kind = "thrown"
         /\ loc' = l
    /\ status' = "error"
    /\ UNCHANGED <<str, width_val, exponent_val, i, ret>>

\* measure, plan, build, SET_VECTOR_ELT(ret, i, ans)
WrapLines ==
    /\ Running
    /\ ~str[i].na
    /\ \E g \in Garbage :
         LET l == Iteration(str[i], width_val, exponent_val, g) IN
         /\ l.kind = "wrapped"
         /\ loc' = l
         /\ ret' = [ret EXCEPT ![i] = Lines(l)]
    /\ i' = i + 1
    /\ UNCHANGED <<str, width_val, exponent_val, status>>

\* Rf_mkCharLenCE with a negative length can also end the call with an R error
WrapBadSlice ==
    /\ Running
    /\ ~str[i].na
    /\ \E g \in Garbage :
         LET l == Iteration(str[i], width_val, exponent_val, g) IN
         /\ l.kind = "wrapped"
         /\ l.bad
         /\ loc' = l
    /\ status' = "error"
    /\ UNCHANGED <<str, width_val, exponent_val, i, ret>>

\* return ret
Return ==
    /\ status = "running"
    /\ i = str_length
    /\ status' = "returned"
    /\ UNCHANGED <<str, width_val, exponent_val, i, ret, loc>>

Next == WrapNA \/ WrapNoMatch \/ WrapThrow \/ WrapLines \/ WrapBadSlice \/ Return

(***************************************************************************)
(* The calls explored.                                                     *)
(***************************************************************************)
Alphabet == {"a", " ", "E9", "A0", "0A", "FF"}

RECURSIVE ByteLen(_)
ByteLen(text) == IF text = <<>> THEN 0 ELSE U8Len(Head(text)) + ByteLen(Tail(text))

RECURSIVE SortedSeq(_)
SortedSeq(S) ==
    IF S = {} THEN <<>>
    ELSE LET lo == CHOOSE x \in S : \A y \in S : x <= y
         IN <<lo>> \o SortedSeq(S \ {lo})

\* the boundaries of the break iterator as the array pos
PosOf(S) == LET q == SortedSeq(S) IN [k \in 0..(Len(q) - 1) |-> q[k + 1]]

\* byte offsets at which a character other than the first one starts
Interior(text) == {ByteLen(SubSeq(text, 1, k)) : k \in 1..(Len(text) - 1)}

\* the strings of n characters with their boundaries: first 0, last the byte
\* length, strictly increasing, each at the start of a character
Strings(n) ==
    UNION { { [na |-> FALSE, text |-> t, pos |-> PosOf({0, ByteLen(t)} \cup B)] :
              B \in SUBSET Interior(t) } :
            t \in [1..n -> Alphabet] }

NAString == [na |-> TRUE, text |-> <<>>, pos |-> Zeros(0)]

\* the batches of size at most n
RECURSIVE Batches(_)
Batches(n) ==
    {<<>>} \cup
    UNION { UNION { { <<x>> \o q : q \in Batches(n - 1 - len) } :
                    x \in Strings(len) \cup (IF len = 0 THEN {NAString} ELSE {}) } :
            len \in 0..(n - 1) }

\* a word of w[1] code points of which the last w[1] - w[2] are whitespace
WordText(w) ==
    [k \in 1..w[1] |-> IF k > w[2] THEN " " ELSE IF k = 1 THEN "E9" ELSE "a"]

\* the lists of at most n words of at most c code points in all
RECURSIVE WordLists(_, _)
WordLists(n, c) ==
    IF n = 0 THEN {<<>>}
    ELSE {<<>>} \cup
         UNION { { <<w>> \o wl : wl \in WordLists(n - 1, c - w[1]) } :
                 w \in {w \in (1..c) \X (0..c) : w[2] <= w[1]} }

RECURSIVE Concat(_)
Concat(ws) == IF ws = <<>> THEN <<>> ELSE WordText(Head(ws)) \o Concat(Tail(ws))

\* the string made of the words of wl, one boundary after every word
StringOfWords(wl) ==
    [na |-> FALSE, text |-> Concat(wl),
     pos |-> PosOf({ByteLen(Concat(SubSeq(wl, 1, k))) : k \in 0..Len(wl)})]

\* the string of the words of wl followed by a malformed byte as its last word
MalformedTail(wl) ==
    LET x == StringOfWords(wl) IN
    [na |-> FALSE, text |-> x.text \o <<"FF">>,
     pos |-> PosOf({x.pos[k] : k \in DOMAIN x.pos} \cup {ByteLen(x.text) + 1})]

Batch(q) == [k \in 0..(Len(q) - 1) |-> q[k + 1]]

ExampleText ==
    << "T", "h", "e", " ", "q", "u", "i", "c", "k", " ", "b", "r", "o", "w", "n",
       " ", "f", "o", "x", " ", "j", "u", "m", "p", "s" >>

ExampleString ==
    [na |-> FALSE, text |-> ExampleText, pos |-> PosOf({0, 4, 10, 16, 20, 25})]

\* the state of stri_wrap when the loop over the strings starts
Start(b, w, e) ==
    /\ str = b
    /\ width_val = w
    /\ exponent_val = e
    /\ ret = [k \in DOMAIN b |-> Unset]
    /\ i = 0
    /\ status = "running"
    /\ loc = NoLoc

\* stri_wrap is called with the string of a word list, such a string with a
\* malformed last byte, a batch or the example
Init ==
    \/ \E wl \in WordLists(MaxWords, MaxChars) \ {<<>>},
          w \in 1..MaxWidth, e \in 0..MaxExponent :
         Start(Batch(<<StringOfWords(wl)>>), w, e)
    \/ \E wl \in WordLists(MaxWords - 1, MaxChars - 1),
          w \in 1..MaxWidth, e \in 0..MaxExponent :
         Start(Batch(<<MalformedTail(wl)>>), w, e)
    \/ \E q \in Batches(MaxSize), w \in 1..MaxWidth, e \in 0..MaxExponent :
         Start(Batch(q), w, e)
    \/ \E e \in 0..MaxExponent : Start(Batch(<<ExampleString>>), 10, e)

Spec == Init /\ [][Next]_vars

(***************************************************************************)
(* Vocabulary of the properties.                                           *)
(***************************************************************************)
\* number of code points of a byte string: its lead bytes
CodePoints(bs) == Cardinality({k \in 1..Len(bs) : bs[k][2] = 1})

Wrapped == loc.kind = "wrapped"

\* the last string was measured without meeting a malformed byte and built
WrappedValid == Wrapped /\ ~loc.invalid /\ status # "error"

NWords == loc.noccurences - 1

\* the lines of the last string as stored in ret
LastLines == ret[i - 1].lines

\* the last word of every line: the breaks and the last word
LineEnds(wrap, n) == Append(wrap, n - 1)

LineFirst(wrap, m) == IF m = 1 THEN 0 ELSE wrap[m - 1] + 1

LineLast(wrap, n, m) == LineEnds(wrap, n)[m]

StrictlyIncreasing(q) == \A a, b \in 1..Len(q) : a < b => q[a] < q[b]

\* wrap is a set of breaks of n words
IsBreakSet(wrap, n) ==
    /\ StrictlyIncreasing(wrap)
    /\ \A k \in 1..Len(wrap) : wrap[k] \in 0..(n - 2)

\* every line of the partition has a finite cost
Feasible(wrap, cost, n) ==
    \A m \in 1..(Len(wrap) + 1) :
        /\ LineFirst(wrap, m) <= LineLast(wrap, n, m)
        /\ cost[IDX(LineFirst(wrap, m), LineLast(wrap, n, m), n)] >= 0

RECURSIVE SumCost(_, _, _, _)
SumCost(m, wrap, cost, n) ==
    IF m > Len(wrap) + 1 THEN 0
    ELSE cost[IDX(LineFirst(wrap, m), LineLast(wrap, n, m), n)]
         + SumCost(m + 1, wrap, cost, n)

TotalCost(wrap, cost, n) == SumCost(1, wrap, cost, n)

Minimum(S) == CHOOSE x \in S : \A y \in S : x <= y

\* the least total cost of a partition of the n words into feasible lines
MinPartitionCost(cost, n) ==
    Minimum({ TotalCost(SortedSeq(B), cost, n) :
              B \in {B \in SUBSET (0..(n - 2)) : Feasible(SortedSeq(B), cost, n)} })

\* bestCost[j] of the recurrence, bestCost[-1] = 0
RECURSIVE BestCost(_, _, _)
BestCost(j, cost, n) ==
    IF j < 0 THEN 0
    ELSE Minimum({ BestCost(a - 1, cost, n) + cost[IDX(a, j, n)] :
                   a \in {a \in 0..j : cost[IDX(a, j, n)] >= 0} })

\* what the Greedy policy returns for the words of the last string
GreedyWrap ==
    stri__wrap_greedy(loc.noccurences, width_val, loc.counts_orig, loc.counts_trim)

NoTrimAllFit ==
    \A k \in 0..(NWords - 1) :
        /\ loc.counts_trim[k] = loc.counts_orig[k]
        /\ loc.counts_orig[k] <= width_val

(***************************************************************************)
(* C1: every output line has at most width code points, unless it holds a  *)
(* word whose trimmed width alone exceeds width; such a line consists of   *)
(* exactly that word.                                                      *)
(***************************************************************************)
C1_LineWidth ==
    WrappedValid =>
      \A m \in 1..Len(LastLines) :
        LET a == LineFirst(loc.wrap, m)
            b == LineLast(loc.wrap, NWords, m)
        IN IF \E k \in a..b : loc.counts_trim[k] > width_val
           THEN a = b
           ELSE CodePoints(LastLines[m]) <= width_val

C1_Witness ==
    /\ WrappedValid
    /\ loc.dynamic
    /\ \E m \in 1..Len(LastLines) :
         /\ LineFirst(loc.wrap, m) = LineLast(loc.wrap, NWords, m)
         /\ loc.counts_trim[LineFirst(loc.wrap, m)] > width_val
    /\ \E m \in 1..Len(LastLines) :
         /\ LineFirst(loc.wrap, m) < LineLast(loc.wrap, NWords, m)
         /\ CodePoints(LastLines[m]) = width_val

(***************************************************************************)
(* C2: the Dynamic policy returns a partition into feasible lines of       *)
(* minimal total cost, and f[j] = min over line starts a of                *)
(* bestCost[a-1] + cost[a][j] for every j.                                 *)
(***************************************************************************)
C2_DynamicOptimal ==
    (WrappedValid /\ loc.dynamic) =>
      /\ IsBreakSet(loc.wrap, NWords)
      /\ Feasible(loc.wrap, loc.cost, NWords)
      /\ TotalCost(loc.wrap, loc.cost, NWords) = MinPartitionCost(loc.cost, NWords)
      /\ \A j \in 0..(NWords - 1) : loc.f[j] = BestCost(j, loc.cost, NWords)

(***************************************************************************)
(* C3: the partition of the Dynamic policy never costs more than the       *)
(* partition the Greedy policy chooses for the same words and width.       *)
(***************************************************************************)
C3_DynamicNotWorse ==
    (WrappedValid /\ loc.dynamic) =>
      TotalCost(loc.wrap, loc.cost, NWords) <= TotalCost(GreedyWrap, loc.cost, NWords)

(***************************************************************************)
(* C4 as stated: when no word has trailing whitespace and every word fits, *)
(* the Greedy and the Dynamic policy return the same break set.            *)
(***************************************************************************)
C4_SameBreaks ==
    (WrappedValid /\ loc.dynamic /\ NoTrimAllFit) => loc.wrap = GreedyWrap

(***************************************************************************)
(* C4 amended: under the same conditions both break sets are partitions    *)
(* into feasible lines, the Dynamic one never has fewer breaks than the    *)
(* Greedy one, and the two are equal when Greedy emits no break.           *)
(***************************************************************************)
C4_GreedyFewestLines ==
    (WrappedValid /\ loc.dynamic /\ NoTrimAllFit) =>
      /\ Feasible(loc.wrap, loc.cost, NWords)
      /\ Feasible(GreedyWrap, loc.cost, NWords)
      /\ Len(GreedyWrap) <= Len(loc.wrap)
      /\ (GreedyWrap = <<>> => loc.wrap = <<>>)

C4_Witness ==
    /\ WrappedValid /\ loc.dynamic /\ NoTrimAllFit
    /\ loc.wrap # GreedyWrap
    /\ Len(loc.wrap) = Len(GreedyWrap)

(***************************************************************************)
(* C5: a break after word j-1 is emitted exactly when the original widths  *)
(* of the words already on the line plus the trimmed width of word j       *)
(* exceed width; the example wraps to "The quick", "brown fox", "jumps".   *)
(***************************************************************************)
BreakBefore(wrap, j) ==
    LET S == {wrap[k] : k \in {k \in 1..Len(wrap) : wrap[k] < j - 1}}
    IN IF S = {} THEN 0 ELSE (CHOOSE x \in S : \A y \in S : y <= x) + 1

C5_GreedyScan ==
    /\ (WrappedValid /\ ~loc.dynamic) =>
         /\ StrictlyIncreasing(loc.wrap)
         /\ \A k \in 1..Len(loc.wrap) : loc.wrap[k] \in 0..(NWords - 2)
         /\ \A j \in 1..(NWords - 1) :
              (\E k \in 1..Len(loc.wrap) : loc.wrap[k] = j - 1)
              <=> (SumRange(loc.counts_orig, BreakBefore(loc.wrap, j), j - 1)
                     + loc.counts_trim[j] > width_val)
    /\ (i = 1 /\ str[0] = ExampleString /\ width_val = 10 /\ exponent_val = 0) =>
         ret[0].lines = << Bytes(SubSeq(ExampleText, 1, 9)),
                           Bytes(SubSeq(ExampleText, 11, 19)),
                           Bytes(SubSeq(ExampleText, 21, 25)) >>

C5_Witness ==
    /\ i = 1 /\ str[0] = ExampleString /\ width_val = 10 /\ exponent_val = 0
    /\ loc.wrap = <<1, 3>>
    /\ Len(ret[0].lines) = 3

(***************************************************************************)
(* C6: after a malformed byte the result of the string is the single line  *)
(* equal to the original string, and the batch does not fail.              *)
(***************************************************************************)
C6_InvalidFallback ==
    loc.invalid =>
      /\ status # "error"
      /\ ret[i - 1] = ToR(str[i - 1])

(***************************************************************************)
(* C7 as stated: a hard line break in one string does not abort the batch; *)
(* the results of the strings already processed are still returned.        *)
(***************************************************************************)
C7_Confined == (loc.kind = "thrown" /\ i >= 1) => status # "error"

(***************************************************************************)
(* C7 amended: a hard line break met while measuring a string aborts the   *)
(* whole call: it ends with an error, and no call in which some string    *)
(* that is not NA contains a hard line break returns a result.            *)
(***************************************************************************)
HasLinebreak(in) == \E k \in 1..Len(in.text) : in.text[k] \in uset_linebreaks

C7_Aborts ==
    /\ loc.kind = "thrown" => status = "error"
    /\ status = "returned" => \A k \in DOMAIN str : ~HasLinebreak(str[k])

C7_Witness ==
    /\ status = "error"
    /\ loc.kind = "thrown"
    /\ i = 1
    /\ ret[0].kind = "lines"
    /\ ret[1].kind = "unset"

(***************************************************************************)
(* C8: the lines are disjoint slices of the string in order, and every     *)
(* byte outside all lines is whitespace of the trailing whitespace run of  *)
(* the last word of some line.                                             *)
(***************************************************************************)
IsWhitespaceByte(bt) == bt[1] \in uset_whitespaces

C8_RoundTrip ==
    WrappedValid =>
      LET sl == loc.slices
          n == NWords
      IN
      /\ Len(LastLines) = Len(sl)
      /\ \A m \in 1..Len(sl) :
           /\ 0 <= sl[m].from /\ sl[m].from <= sl[m].to /\ sl[m].to <= Len(loc.s)
           /\ LastLines[m] = [k \in 1..(sl[m].to - sl[m].from) |-> loc.s[sl[m].from + k]]
           /\ m < Len(sl) => sl[m].to <= sl[m + 1].from
      /\ \A b \in 0..(Len(loc.s) - 1) :
           (\A m \in 1..Len(sl) : ~(sl[m].from <= b /\ b < sl[m].to)) =>
             \E m \in 1..Len(sl) :
               LET w == LineLast(loc.wrap, n, m) IN
               /\ loc.pos[w] <= b /\ b < loc.pos[w + 1]
               /\ \A c \in b..(loc.pos[w + 1] - 1) : IsWhitespaceByte(loc.s[c + 1])

C8_Witness ==
    /\ WrappedValid
    /\ Len(loc.slices) >= 2
    /\ \E m \in 1..(Len(loc.slices) - 1) : loc.slices[m].to + 2 <= loc.slices[m + 1].from
    /\ \E k \in 1..Len(loc.s) : loc.s[k][2] = 2
    /\ loc.slices[Len(loc.slices)].to < Len(loc.s)

(***************************************************************************)
(* C9 as stated: a line of words a..b, a < b, is charged the trimmed       *)
(* widths of a..b-1 plus the original width of b.                          *)
(***************************************************************************)
CostIs(a, b, sum) ==
    loc.cost[IDX(a, b, NWords)] =
      (IF width_val - sum < 0 THEN -1 ELSE Pow(width_val - sum, exponent_val))

C9_TrimmedThenOriginal ==
    (WrappedValid /\ loc.dynamic) =>
      \A a, b \in 0..(NWords - 1) :
        a < b => CostIs(a, b, SumRange(loc.counts_trim, a, b - 1) + loc.counts_orig[b])

(***************************************************************************)
(* C9 amended: a line of words a..b, a < b, is charged the original widths *)
(* of a..b-1 plus the trimmed width of b; it is infeasible exactly when    *)
(* width minus that sum is negative and otherwise costs                    *)
(* (width - sum)^exponent.                                                 *)
(***************************************************************************)
C9_OriginalThenTrimmed ==
    (WrappedValid /\ loc.dynamic) =>
      \A a, b \in 0..(NWords - 1) :
        a < b => CostIs(a, b, SumRange(loc.counts_orig, a, b - 1) + loc.counts_trim[b])

C9_Witness ==
    /\ WrappedValid /\ loc.dynamic
    /\ \E a, b \in 0..(NWords - 1) :
         /\ a < b
         /\ loc.cost[IDX(a, b, NWords)] > 0
         /\ loc.counts_trim[a] < loc.counts_orig[a]
    /\ \E a, b \in 0..(NWords - 1) :
         /\ a < b
         /\ loc.cost[IDX(a, b, NWords)] < 0
         /\ loc.cost[IDX(a, b - 1, NWords)] >= 0

(***************************************************************************)
(* C10: the break set is strictly increasing within 0..n-2, there is one   *)
(* line more than breaks, every slice starts no later than it ends, and    *)
(* every index read by the search of the Dynamic policy and by the Line    *)
(* Builder is inside its array.                                            *)
(***************************************************************************)
C10_InRange ==
    Wrapped =>
      /\ IsBreakSet(loc.wrap, NWords)
      /\ Len(loc.slices) = Len(loc.wrap) + 1
      /\ loc.reads \subseteq DOMAIN loc.cost
      /\ \A k \in 1..Len(loc.wrap) :
           /\ loc.wrap[k] \in DOMAIN loc.end_pos_trim
           /\ loc.wrap[k] + 1 \in DOMAIN loc.pos
      /\ NWords - 1 \in DOMAIN loc.end_pos_trim
      /\ NWords \in DOMAIN loc.pos
      /\ ~loc.invalid =>
           /\ ~loc.bad
           /\ \A m \in 1..Len(loc.slices) : loc.slices[m].from <= loc.slices[m].to
           /\ status # "error" => Len(LastLines) = Len(loc.wrap) + 1

C10_Witness ==
    /\ WrappedValid /\ loc.dynamic
    /\ Len(loc.wrap) >= 2
    /\ loc.reads # {}
    /\ \E k \in 0..(NWords - 1) : loc.counts_trim[k] > width_val

====
